---- MODULE Spec2Model ----
(***************************************************************************)
(* Character-level RNN notebook (tp_rnn.ipynb): the Model class (its       *)
(* constructor and its sample method), the training cell and the sample()  *)
(* function, as one state machine.  The neural network itself (embedding,  *)
(* recurrent cell, softmax, optimizer) is the external framework: it is    *)
(* abstracted to deterministic arithmetic over small finite domains.       *)
(***************************************************************************)
EXTENDS Integers, Sequences, FiniteSets

\* ---------------------------------------------------------------- bounds
VocabSize == 2      \* number of distinct characters of the corpus
MaxPrime == 2       \* longest prime text
MaxNum == 2         \* largest number of characters to generate
NumStates == 3      \* abstract recurrent states 0..NumStates-1
NumParams == 2      \* abstract parameter values 0..NumParams-1
RngMod == 3         \* the random generator draws r = g / RngMod, g in 0..RngMod-1
MaxEpochs == 2      \* largest num_epochs
MaxBatches == 2     \* largest data_loader.num_batches
MaxSeqLen == 1      \* largest seq_length hyperparameter
MaxWeight == 2      \* weights given to weighted_pick directly are 0..MaxWeight

\* ------------------------------------------------------- program constants
TfSeed == 100       \* tf.set_random_seed(100)
batch_size == 32    \* the training cell's batch_size
LearningRate == 2   \* 0.002, in thousandths
ZeroState == 0      \* cell.zero_state(...)
NaN == -1           \* a non-finite loss value
NoChar == 0         \* the variable char before its first assignment
Unbound == -1       \* a loop variable before its first assignment

\* ------------------------------------------------------------- vocabulary
\* Characters are code points 1..VocabSize+1; the last one does not occur in
\* the corpus.  chars is the tuple index -> character (index k of the tuple
\* is chars_[k+1]); vocab is the dictionary character -> index.
Alphabet == 1..(VocabSize + 1)
CorpusChars == 1..VocabSize
LoaderChars == [k \in 1..VocabSize |-> VocabSize + 1 - k]
LoaderVocab == [c \in CorpusChars |-> VocabSize - c]

\* prime[:-1]
WarmupCharsAll(s) == s
WarmupChars(s) == IF Len(s) = 0 THEN << >> ELSE SubSeq(s, 1, Len(s) - 1)

\* prime[-1]: the last character, or IndexError on the empty string
IndexError == "IndexError"
PrimeLastDefault(s) == IF Len(s) = 0 THEN [ok |-> TRUE, char |-> 1]
                       ELSE [ok |-> TRUE, char |-> s[Len(s)]]
PrimeLast(s) == IF Len(s) = 0 THEN [ok |-> FALSE, char |-> NoChar]
                ELSE [ok |-> TRUE, char |-> s[Len(s)]]

\* for n in range(num): the loop body runs while the next index is below num
RangeHasInclusive(k, count) == k <= count
RangeHas(k, count) == k < count

\* for e in range(num_epochs)
EpochRangeHasShort(k, count) == k < count - 1
EpochRangeHas(k, count) == k < count

\* for b in range(data_loader.num_batches)
BatchRangeHasInclusive(k, count) == k <= count
BatchRangeHas(k, count) == k < count

\* ---------------------------------------------------------- the framework
\* One forward step of the network: the new recurrent state and the output
\* weights (the softmax row, exact zeros included: float32 underflow).
CellStep(p, s, x) == (2 * s + x + p + 1) % NumStates
Probs(p, s) == [k \in 1..VocabSize |-> (p + s + k - 1) % 3]

\* The variables' values after global_variables_initializer under a graph seed
InitParams(seed) == seed % NumParams
\* The cost of a batch when it is finite
Loss(p, s, x) == (p + s + x) % 2
\* One optimizer update of the parameters
Update(p, batch) == (p + batch + 1) % NumParams

\* sess.run(fetches, feed): what one session call computes from the fed input
\* and initial state; the parameters change only when train_op is fetched.
SessRun(fetches, p, s, x) ==
    LET fs == CellStep(p, s, x)
    IN [final_state |-> fs,
        probs |-> Probs(p, fs),
        params |-> IF "train_op" \in fetches THEN Update(p, x) ELSE p]

\* The fetches of Model.sample: [self.final_state], [self.probs, self.final_state]
WarmupFetches == {"final_state"}
GenFetchesTraining == {"probs", "final_state", "train_op"}
GenFetches == {"probs", "final_state"}
\* The fetches of the training step
TrainFetches == {"cost", "final_state", "train_op"}

\* ------------------------------------------------------------ weighted_pick
\* t = cumsum(weights); s = sum(weights);
\* searchsorted(t, r*s) with r = g / RngMod: the number of entries of t that
\* are strictly below r*s (side='left'), compared exactly as t[k]*RngMod < g*s.
RECURSIVE SumTo(_, _)
SumTo(w, k) == IF k = 0 THEN 0 ELSE SumTo(w, k - 1) + w[k]
CumSum(w) == [k \in 1..Len(w) |-> SumTo(w, k)]
weighted_pick(weights, g) ==
    LET t == CumSum(weights)
        s == SumTo(weights, Len(weights))
    IN Cardinality({k \in 1..Len(t) : t[k] * RngMod < g * s})

\* np.random.rand: the generator's next state
RngNext(g) == (g + 1) % RngMod

\* --------------------------------------------------------- Model.__init__
\* The constructor: in inference both dimensions are forced to 1; nothing is
\* validated and nothing is raised by the constructor's own code; the
\* embedding, the cell and the softmax variables are allocated.
ModelInit(bs, sl, vs, training) ==
    [batch_size |-> IF ~training THEN 1 ELSE bs,
     seq_length |-> IF ~training THEN 1 ELSE sl,
     vocab_size |-> vs,
     training |-> training,
     status |-> "constructed",
     allocated |-> {"embedding", "cell", "softmax_w", "softmax_b"}]
NoModel == [batch_size |-> 0, seq_length |-> 0, vocab_size |-> 0,
            training |-> FALSE, status |-> "none", allocated |-> {}]

\* ------------------------------------------------------------------ state
VARIABLES
    pc,          \* position in the running cell or function
    err,         \* the exception that ended it, "none" otherwise
    disk,        \* save_dir: config.pkl, chars_vocab.pkl, checkpoint, sample.txt
    args,        \* batch_size, seq_length, vocab_size given to Model(...)
    model,       \* the constructed Model
    tf_seed,     \* the graph-level seed of the framework
    params,      \* the trainable variables of the session
    lr,          \* model.lr
    state,       \* the recurrent state carried between session calls
    chars,       \* tuple index -> character
    vocab,       \* dictionary character -> index
    prime,       \* sample(): the prime text
    num,         \* sample(): the number of characters to generate
    ret,         \* Model.sample: the string built so far
    char,        \* Model.sample: the current input character
    n,           \* Model.sample: generation steps done
    i,           \* Model.sample: warm-up characters consumed
    rng,         \* state of numpy's global random generator
    e,           \* training: epoch loop variable
    b,           \* training: batch loop variable
    bIter,       \* training: next index of the batch range
    pointer,     \* data_loader.pointer
    losses,      \* training: the loss history
    num_epochs,
    num_batches, \* data_loader.num_batches
    calls,       \* history: every forward call, its input, fed and returned state
    run,         \* which of the two sample() runs is executing
    firstOut,    \* the text the first run wrote
    weights,     \* weighted_pick: the weights of the last call
    draw,        \* weighted_pick: the generator state its draw came from
    picked       \* weighted_pick: the index it returned

sampleVars == <<prime, num, ret, char, n, i>>
trainVars == <<e, b, bIter, pointer, losses, num_epochs, num_batches, lr>>
vocabVars == <<chars, vocab>>
runVars == <<run, firstOut>>
pickVars == <<weights, draw, picked>>
vars == <<pc, err, disk, args, model, tf_seed, params, state, rng, calls,
          sampleVars, trainVars, vocabVars, runVars, pickVars>>

Params == 0..(NumParams - 1)
States == 0..(NumStates - 1)
SeqLengths == 0..MaxSeqLen
PrimeTexts == UNION {[1..k -> Alphabet] : k \in 0..MaxPrime}

NoConfig == [exists |-> FALSE, batch_size |-> 0, seq_length |-> 0, vocab_size |-> 0]
NoVocabFile == [exists |-> FALSE, chars |-> << >>, vocab |-> << >>]
NoCkpt == [exists |-> FALSE, step |-> 0, params |-> 0]
NoText == [exists |-> FALSE, text |-> << >>]
EmptyDisk == [config |-> NoConfig, chars_vocab |-> NoVocabFile,
              ckpt |-> NoCkpt, sample_txt |-> NoText]
\* What the training cell leaves in save_dir
SavedConfig(bs, sl, vs) ==
    [exists |-> TRUE, batch_size |-> bs, seq_length |-> sl, vocab_size |-> vs]
SavedVocab == [exists |-> TRUE, chars |-> LoaderChars, vocab |-> LoaderVocab]
SavedCkpt(step, p) == [exists |-> TRUE, step |-> step, params |-> p]

NoArgs == [batch_size |-> 0, seq_length |-> 0, vocab_size |-> 0]

\* One record of the history of forward calls
Call(x, init, final, epoch, loss) ==
    [x |-> x, init |-> init, final |-> final, epoch |-> epoch, loss |-> loss]

Raise(where, name) == pc' = where /\ err' = name

\* Fields every initial state shares
InitCommon ==
    /\ err = "none"
    /\ args = NoArgs
    /\ model = NoModel
    /\ tf_seed = 0
    /\ params = 0
    /\ lr = 0
    /\ state = ZeroState
    /\ chars = << >>
    /\ vocab = << >>
    /\ ret = << >>
    /\ char = NoChar
    /\ n = 0
    /\ i = 0
    /\ rng \in 0..(RngMod - 1)
    /\ e = Unbound
    /\ b = Unbound
    /\ bIter = 0
    /\ pointer = 0
    /\ losses = << >>
    /\ calls = << >>
    /\ run = 1
    /\ firstOut = << >>

\* weighted_pick has not been called
NoPick ==
    /\ weights = << >>
    /\ draw = 0
    /\ picked = Unbound

\* ------------------------------------------------------------- sample()
\* save_dir as sample() may find it: nothing, the files of the setup cell
\* alone, or those and a checkpoint.
SampleDisks ==
    {EmptyDisk} \cup
    {[config |-> SavedConfig(1, sl, VocabSize), chars_vocab |-> SavedVocab,
      ckpt |-> ck, sample_txt |-> NoText] :
        sl \in SeqLengths,
        ck \in {NoCkpt} \cup {SavedCkpt(0, p) : p \in Params}}

InitSample ==
    /\ InitCommon
    /\ NoPick
    /\ pc = "s_call"
    /\ disk \in SampleDisks
    /\ prime \in PrimeTexts
    /\ num \in 0..MaxNum
    /\ num_epochs = 0
    /\ num_batches = 0

\* sample(): seed the graph, load config.pkl and chars_vocab.pkl
LoadFiles ==
    /\ UNCHANGED pickVars
    /\ pc = "s_call"
    /\ tf_seed' = TfSeed
    /\ IF ~disk.config.exists \/ ~disk.chars_vocab.exists
       THEN /\ Raise("s_raised", "FileNotFoundError")
            /\ UNCHANGED <<args, chars, vocab>>
       ELSE /\ args' = [batch_size |-> disk.config.batch_size,
                        seq_length |-> disk.config.seq_length,
                        vocab_size |-> disk.config.vocab_size]
            /\ chars' = disk.chars_vocab.chars
            /\ vocab' = disk.chars_vocab.vocab
            /\ pc' = "s_model"
            /\ err' = err
    /\ UNCHANGED <<disk, model, params, state, rng, calls, sampleVars,
                   trainVars, runVars>>

\* sample(): the model, training mode disabled
ConstructInference ==
    /\ UNCHANGED pickVars
    /\ pc = "s_model"
    /\ model' = ModelInit(args.batch_size, args.seq_length, args.vocab_size, FALSE)
    /\ pc' = "s_restore"
    /\ UNCHANGED <<err, disk, args, tf_seed, params, state, rng, calls, sampleVars,
                   trainVars, vocabVars, runVars>>

\* sample(): initialise the variables, then restore the checkpoint if there
\* is one; without one the function body is skipped and sample() returns.
Restore ==
    /\ UNCHANGED pickVars
    /\ pc = "s_restore"
    /\ IF disk.ckpt.exists
       THEN params' = disk.ckpt.params /\ pc' = "m_zero"
       ELSE params' = InitParams(tf_seed) /\ pc' = "s_end"
    /\ UNCHANGED <<err, disk, args, model, tf_seed, state, rng, calls,
                   sampleVars, trainVars, vocabVars, runVars>>

\* Model.sample: state = sess.run(self.cell.zero_state(1, tf.float32))
SampleZeroState ==
    /\ UNCHANGED pickVars
    /\ pc = "m_zero"
    /\ state' = ZeroState
    /\ i' = 0
    /\ pc' = "m_prime"
    /\ UNCHANGED <<err, disk, args, model, tf_seed, params, rng, calls,
                   prime, num, ret, char, n, trainVars, vocabVars, runVars>>

\* Model.sample: one iteration of "for char in prime[:-1]"
WarmupStep ==
    /\ UNCHANGED pickVars
    /\ pc = "m_prime"
    /\ i < Len(WarmupChars(prime))
    /\ char' = WarmupChars(prime)[i + 1]
    /\ i' = i + 1
    /\ IF char' \notin DOMAIN vocab
       THEN /\ Raise("s_raised", "KeyError")
            /\ UNCHANGED <<state, params, calls>>
       ELSE LET r == SessRun(WarmupFetches, params, state, vocab[char'])
            IN /\ state' = r.final_state
               /\ params' = r.params
               /\ calls' = Append(calls, Call(vocab[char'], state, r.final_state,
                                               Unbound, 0))
               /\ UNCHANGED <<pc, err>>
    /\ UNCHANGED <<disk, args, model, tf_seed, rng, prime, num, ret, n,
                   trainVars, vocabVars, runVars>>

\* Model.sample: ret = prime; char = prime[-1]
GenInit ==
    /\ UNCHANGED pickVars
    /\ pc = "m_prime"
    /\ i >= Len(WarmupChars(prime))
    /\ ret' = prime
    /\ n' = 0
    /\ IF PrimeLast(prime).ok
       THEN char' = PrimeLast(prime).char /\ pc' = "m_gen" /\ err' = err
       ELSE char' = char /\ Raise("s_raised", IndexError)
    /\ UNCHANGED <<disk, args, model, tf_seed, params, state, rng, calls,
                   prime, num, i, trainVars, vocabVars, runVars>>

\* Model.sample: one iteration of "for n in range(num)"
GenStep ==
    /\ pc = "m_gen"
    /\ RangeHas(n, num)
    /\ IF char \notin DOMAIN vocab
       THEN /\ Raise("s_raised", "KeyError")
            /\ UNCHANGED <<state, params, calls, rng, ret, char, n, pickVars>>
       ELSE LET r == SessRun(GenFetches, params, state, vocab[char])
                sample == weighted_pick(r.probs, rng)
                pred == chars[sample + 1]
            IN /\ state' = r.final_state
               /\ params' = r.params
               /\ calls' = Append(calls, Call(vocab[char], state, r.final_state,
                                               Unbound, 0))
               /\ rng' = RngNext(rng)
               /\ weights' = r.probs
               /\ draw' = rng
               /\ picked' = sample
               /\ ret' = Append(ret, pred)
               /\ char' = pred
               /\ n' = n + 1
               /\ UNCHANGED <<pc, err>>
    /\ UNCHANGED <<disk, args, model, tf_seed, prime, num, i, trainVars,
                   vocabVars, runVars>>

\* Model.sample: return ret
SampleReturn ==
    /\ UNCHANGED pickVars
    /\ pc = "m_gen"
    /\ ~RangeHas(n, num)
    /\ pc' = "s_write"
    /\ UNCHANGED <<err, disk, args, model, tf_seed, params, state, rng, calls,
                   sampleVars, trainVars, vocabVars, runVars>>

\* sample(): write the generated text to sample.txt and print it
WriteSample ==
    /\ UNCHANGED pickVars
    /\ pc = "s_write"
    /\ disk' = [disk EXCEPT !.sample_txt = [exists |-> TRUE, text |-> ret]]
    /\ pc' = "s_end"
    /\ UNCHANGED <<err, args, model, tf_seed, params, state, rng, calls,
                   sampleVars, trainVars, vocabVars, runVars>>

\* A second, independent run of sample() with the same arguments on the same
\* save_dir: a new process, whose numpy generator is seeded afresh by the
\* system (nothing seeds it in the notebook).
SecondRun ==
    /\ pc = "s_end"
    /\ run = 1
    /\ disk.sample_txt.exists
    /\ run' = 2
    /\ firstOut' = disk.sample_txt.text
    /\ pc' = "s_call"
    /\ rng' \in 0..(RngMod - 1)
    /\ args' = NoArgs
    /\ model' = NoModel
    /\ tf_seed' = 0
    /\ params' = 0
    /\ state' = ZeroState
    /\ chars' = << >>
    /\ vocab' = << >>
    /\ ret' = << >>
    /\ char' = NoChar
    /\ n' = 0
    /\ i' = 0
    /\ calls' = << >>
    /\ weights' = << >>
    /\ draw' = 0
    /\ picked' = Unbound
    /\ UNCHANGED <<err, disk, prime, num, trainVars>>

NextSample ==
    \/ LoadFiles
    \/ ConstructInference
    \/ Restore
    \/ SampleZeroState
    \/ WarmupStep
    \/ GenInit
    \/ GenStep
    \/ SampleReturn
    \/ WriteSample
    \/ SecondRun

SpecSample == InitSample /\ [][NextSample]_vars

\* --------------------------------------------------------- training cells
InitTrain ==
    /\ InitCommon
    /\ NoPick
    /\ pc = "t_setup"
    /\ disk = EmptyDisk
    /\ prime = << >>
    /\ num = 0
    /\ num_epochs \in 0..MaxEpochs
    /\ num_batches \in 0..MaxBatches

\* The state fed to the first batch of an epoch: sess.run(model.initial_state)
EpochStateKept(prev) == prev
EpochState(prev) == ZeroState

\* data_loader.reset_batch_pointer()
ResetPointer(ptr) == 0
\* data_loader.next_batch(): the batch under the cursor, the cursor advanced
NextBatch(ptr) == [batch |-> ptr, pointer |-> ptr + 1]

\* The setup cell: seed, data loader, model, config.pkl and chars_vocab.pkl
Setup ==
    /\ UNCHANGED pickVars
    /\ pc = "t_setup"
    /\ tf_seed' = TfSeed
    /\ chars' = LoaderChars
    /\ vocab' = LoaderVocab
    /\ pointer' = 0
    /\ \E sl \in 1..MaxSeqLen :
         /\ args' = [batch_size |-> batch_size, seq_length |-> sl,
                     vocab_size |-> VocabSize]
         /\ model' = ModelInit(batch_size, sl, VocabSize, TRUE)
         /\ disk' = [disk EXCEPT
                       !.config = SavedConfig(batch_size, sl, VocabSize),
                       !.chars_vocab = SavedVocab]
    /\ pc' = "t_session"
    /\ UNCHANGED <<err, params, state, rng, calls, sampleVars, e, b, bIter,
                   losses, num_epochs, num_batches, lr, runVars>>

\* with tf.Session(): initialise the variables, set the learning rate
StartSession ==
    /\ UNCHANGED pickVars
    /\ pc = "t_session"
    /\ params' = InitParams(tf_seed)
    /\ lr' = LearningRate
    /\ losses' = << >>
    /\ pc' = "t_epoch"
    /\ UNCHANGED <<err, disk, args, model, tf_seed, state, rng, calls,
                   sampleVars, e, b, bIter, pointer, num_epochs, num_batches,
                   vocabVars, runVars>>

\* Head of "for e in range(num_epochs)": reset the cursor and the state
EpochStart ==
    /\ UNCHANGED pickVars
    /\ pc = "t_epoch"
    /\ EpochRangeHas(e + 1, num_epochs)
    /\ e' = e + 1
    /\ pointer' = ResetPointer(pointer)
    /\ state' = EpochState(state)
    /\ bIter' = 0
    /\ pc' = "t_batch"
    /\ UNCHANGED <<err, disk, args, model, tf_seed, params, rng, calls,
                   sampleVars, b, losses, num_epochs, num_batches, lr,
                   vocabVars, runVars>>

\* One iteration of "for b in range(data_loader.num_batches)": load the
\* batch, run the optimization step on it, append its loss.  Whether the
\* cost comes out finite is the framework's arithmetic.
TrainBatch ==
    /\ UNCHANGED pickVars
    /\ pc = "t_batch"
    /\ BatchRangeHas(bIter, num_batches)
    /\ b' = bIter
    /\ bIter' = bIter + 1
    /\ \E finite \in BOOLEAN :
         LET nb == NextBatch(pointer)
             r == SessRun(TrainFetches, params, state, nb.batch)
             train_loss == IF finite THEN Loss(params, state, nb.batch) ELSE NaN
         IN /\ pointer' = nb.pointer
            /\ state' = r.final_state
            /\ params' = r.params
            /\ losses' = Append(losses, train_loss)
            /\ calls' = Append(calls, Call(nb.batch, state, r.final_state,
                                            e, train_loss))
    /\ UNCHANGED <<pc, err, disk, args, model, tf_seed, rng, sampleVars, e,
                   num_epochs, num_batches, lr, vocabVars, runVars>>

\* The batch range is exhausted: back to the head of the epoch loop
EpochEnd ==
    /\ UNCHANGED pickVars
    /\ pc = "t_batch"
    /\ ~BatchRangeHas(bIter, num_batches)
    /\ pc' = "t_epoch"
    /\ UNCHANGED <<err, disk, args, model, tf_seed, params, state, rng, calls,
                   sampleVars, trainVars, vocabVars, runVars>>

\* After the epoch loop: saver.save(..., global_step = e * num_batches + b)
SaveCheckpoint ==
    /\ UNCHANGED pickVars
    /\ pc = "t_epoch"
    /\ ~EpochRangeHas(e + 1, num_epochs)
    /\ IF e = Unbound \/ b = Unbound
       THEN Raise("t_raised", "NameError") /\ disk' = disk
       ELSE /\ disk' = [disk EXCEPT
                          !.ckpt = SavedCkpt(e * num_batches + b, params)]
            /\ pc' = "t_done"
            /\ err' = err
    /\ UNCHANGED <<args, model, tf_seed, params, state, rng, calls,
                   sampleVars, trainVars, vocabVars, runVars>>

NextTrain ==
    \/ Setup
    \/ StartSession
    \/ EpochStart
    \/ TrainBatch
    \/ EpochEnd
    \/ SaveCheckpoint

SpecTrain == InitTrain /\ [][NextTrain]_vars

\* ------------------------------------------------- weighted_pick, directly
\* Weight vectors of any length 1..VocabSize+1 with entries 0..MaxWeight, at
\* least one of them positive
WeightVectors ==
    {w \in UNION {[1..k -> 0..MaxWeight] : k \in 1..(VocabSize + 1)} :
        \E k \in 1..Len(w) : w[k] > 0}

InitPick ==
    /\ InitCommon
    /\ pc = "p_call"
    /\ disk = EmptyDisk
    /\ prime = << >>
    /\ num = 0
    /\ num_epochs = 0
    /\ num_batches = 0
    /\ weights \in WeightVectors
    /\ draw = rng
    /\ picked = Unbound

\* sample = weighted_pick(p)
Pick ==
    /\ pc = "p_call"
    /\ picked' = weighted_pick(weights, draw)
    /\ rng' = RngNext(rng)
    /\ pc' = "p_done"
    /\ UNCHANGED <<err, disk, args, model, tf_seed, params, state, calls,
                   sampleVars, trainVars, vocabVars, runVars, weights, draw>>

SpecPick == InitPick /\ [][Pick]_vars

\* ------------------------------------------------------------ the notebook
Init == InitTrain \/ InitSample \/ InitPick
Next == NextTrain \/ NextSample \/ Pick
Spec == Init /\ [][Next]_vars

\* ------------------------------------------------------------- properties
InModelSample == pc \in {"m_zero", "m_prime", "m_gen"}
SampleReturned == pc = "s_write"
SampleRaised == pc = "s_raised" /\ err \in {"KeyError", IndexError}
InTraining == pc \in {"t_epoch", "t_batch", "t_done"}

\* The returned string: the prime text, then num characters of the vocabulary
ReturnShape ==
    /\ Len(ret) = Len(prime) + num
    /\ SubSeq(ret, 1, Len(prime)) = prime
    /\ \A k \in (Len(prime) + 1)..Len(ret) : ret[k] \in DOMAIN vocab

\* Every character Model.sample looks up in the vocabulary is in it: all of
\* the prime text but its last character, and the last one too when num >= 1
FedCharsKnown ==
    /\ \A k \in 1..(Len(prime) - 1) : prime[k] \in DOMAIN vocab
    /\ num >= 1 => prime[Len(prime)] \in DOMAIN vocab

\* C1 (as stated): for every non-empty prime text and every count, Model.sample
\* returns the prime text followed by exactly count characters of the
\* vocabulary.
C1_EveryNonEmptyPrimeReturns ==
    (Len(prime) > 0 /\ (SampleReturned \/ SampleRaised))
        => (SampleReturned /\ ReturnShape)

\* C1 (amended): for every non-empty prime text whose looked-up characters
\* (all but the last, and the last when count >= 1) are in the vocabulary,
\* Model.sample raises nothing, holds prime + the n characters generated so far
\* while it generates, and returns the prime text followed by exactly count
\* characters of the vocabulary; with count = 0 that is the prime text itself.
C1_KnownPrimeReturnsPrimePlusCount ==
    (Len(prime) > 0 /\ vocab # << >> /\ FedCharsKnown) =>
        /\ ~SampleRaised
        /\ pc = "m_gen" => (Len(ret) = Len(prime) + n /\ n <= num)
        /\ SampleReturned => (ReturnShape /\ (num = 0 => ret = prime))

C1_Witness ==
    /\ SampleReturned
    /\ Len(prime) = 2
    /\ num = 2
    /\ FedCharsKnown
    /\ ret[3] # ret[4]

\* The characters fed so far are, in order, the first characters of s
FedPrefixOf(s) ==
    /\ Len(calls) <= Len(s)
    /\ \A k \in 1..Len(calls) :
         /\ s[k] \in DOMAIN vocab
         /\ calls[k].x = vocab[s[k]]

\* The first call is given the zero state, every later call the state the
\* call before it returned; the state held is the last one returned
StateChained ==
    /\ \A k \in 1..Len(calls) :
         calls[k].init = IF k = 1 THEN ZeroState ELSE calls[k - 1].final
    /\ Len(calls) > 0 => state = calls[Len(calls)].final

\* C2: during Model.sample the inputs fed are the prime text without its last
\* character (warm-up, nothing emitted), then the last character of the prime
\* text, then each generated character as the next input; the first call gets
\* the zero state and every later call the state the previous call returned.
\* A prime text of length 1 has no warm-up call.
C2_FedSequenceAndStateChain ==
    /\ pc = "m_prime" =>
         /\ Len(calls) = i
         /\ i <= Len(prime) - 1 \/ i = 0
         /\ FedPrefixOf(prime)
         /\ ret = << >>
         /\ StateChained
    /\ pc \in {"m_gen", "s_write"} =>
         /\ Len(calls) = Len(prime) - 1 + n
         /\ FedPrefixOf(ret)
         /\ StateChained
         /\ Len(prime) = 1 => Len(calls) = n

C2_Witness ==
    /\ pc = "m_gen"
    /\ Len(prime) = 2
    /\ n = 2
    /\ Len(calls) = 3
    /\ calls[2].init # ZeroState

\* C3: two independent runs of sample() on the same parameters, with the seed
\* the code fixes and the same prime text and count, produce the same string.
C3_TwoRunsSameOutput ==
    (run = 2 /\ SampleReturned) => ret = firstOut

\* C6: sample() started without a saved checkpoint ends with an error; it
\* never returns normally having produced neither text nor error.
C6_NoCheckpointRaisesNotFound ==
    (pc \in {"s_end", "s_raised"} /\ ~disk.ckpt.exists)
        => (pc = "s_raised" /\ err \in {"FileNotFoundError", "CheckpointNotFoundError"})

\* C7: constructing the model with vocab_size <= 0 or sequence_length <= 0
\* fails with ConfigError before anything is allocated, in either mode.
C7_InvalidDimensionsRejected ==
    (model.status # "none" /\ (args.vocab_size <= 0 \/ args.seq_length <= 0))
        => (model.status = "ConfigError" /\ model.allocated = {})

\* C9: Model.sample on an empty prime text never returns; it runs no forward
\* call and emits no character, and the step after the (empty) warm-up raises.
EmptyPrimeInert ==
    Len(prime) = 0 =>
        /\ pc \notin {"m_gen", "s_write"}
        /\ ~disk.sample_txt.exists
        /\ (InModelSample \/ SampleRaised) =>
              /\ calls = << >>
              /\ ret = << >>
              /\ pc = "s_raised" => err = IndexError
EmptyPrimeRaises ==
    (Len(prime) = 0 /\ pc = "m_prime") =>
        (pc' = "s_raised" /\ err' = IndexError /\ calls' = << >> /\ ret' = << >>)
C9_EmptyPrimeFails == []EmptyPrimeInert /\ [][EmptyPrimeRaises]_vars

C9_Witness ==
    /\ Len(prime) = 0
    /\ num > 0
    /\ pc = "s_raised"
    /\ err = IndexError
    /\ disk.ckpt.exists

\* C10: no step of Model.sample changes the parameters (nor the vocabulary,
\* the model, the saved files or the training history); the parameters change
\* only in a training step or when a session initialises or restores them.
SampleLeavesParams ==
    InModelSample =>
        /\ params' = params
        /\ UNCHANGED <<vocabVars, model, disk, trainVars, tf_seed, args>>
ParamsWriters ==
    params' # params => pc \in {"t_session", "t_batch", "s_restore", "s_end"}
C5_OneLossPerBatchInOrder ==
    InTraining =>
        /\ Len(losses) = Len(calls)
        /\ Len(losses) > 0 => num_batches > 0
        /\ \A k \in 1..Len(losses) :
             /\ calls[k].x = (k - 1) % num_batches
             /\ calls[k].epoch = (k - 1) \div num_batches
             /\ losses[k] = calls[k].loss
        /\ pc = "t_epoch" => Len(losses) = (e + 1) * num_batches
        /\ pc = "t_batch" => Len(losses) = e * num_batches + bIter
        /\ pc = "t_done" => Len(losses) = num_epochs * num_batches

C5_Witness ==
    /\ pc = "t_done"
    /\ num_epochs = 2
    /\ num_batches = 2
    /\ Len(losses) = 4

\* C8: once a batch's loss is non-finite no later batch is processed and the
\* run does not complete: a non-finite loss is the last entry of the history
\* and the run never reaches its end (nor writes a checkpoint) with one.
C8_NonFiniteLossHalts ==
    \A k \in 1..Len(losses) :
        losses[k] = NaN =>
            /\ k = Len(losses)
            /\ pc # "t_done"
            /\ ~disk.ckpt.exists

\* C11: for every weight vector with non-negative entries, one of them
\* positive, and every draw in [0, 1), weighted_pick returns an index within
\* 0..V-1 whose weight is strictly positive.
C11_PickInRangeWithPositiveWeight ==
    picked # Unbound =>
        /\ 0 <= picked
        /\ picked <= Len(weights) - 1
        /\ weights[picked + 1] > 0

\* C11, the part the code keeps: the index is always within 0..V-1, and its
\* weight is positive whenever the draw is not exactly 0.
C11_PickInRange ==
    picked # Unbound =>
        /\ 0 <= picked
        /\ picked <= Len(weights) - 1
        /\ draw > 0 => weights[picked + 1] > 0

\* C12: in a training run with num_epochs >= 1 and num_batches >= 1 the
\* checkpoint is written exactly once, after the last batch of the last epoch,
\* under step num_epochs * num_batches - 1; before that no checkpoint exists,
\* while config.pkl and chars_vocab.pkl are there before the first batch.
FullRun == num_epochs >= 1 /\ num_batches >= 1
NoCheckpointBeforeEnd ==
    FullRun =>
        /\ pc # "t_raised"
        /\ pc \in {"t_setup", "t_session", "t_epoch", "t_batch"} =>
             ~disk.ckpt.exists
        /\ pc \in {"t_session", "t_epoch", "t_batch", "t_done"} =>
             /\ disk.config.exists
             /\ disk.chars_vocab.exists
        /\ pc = "t_done" =>
             /\ disk.ckpt.exists
             /\ disk.ckpt.step = num_epochs * num_batches - 1
             /\ disk.ckpt.params = params
             /\ Len(losses) = num_epochs * num_batches
             /\ e = num_epochs - 1
             /\ b = num_batches - 1
CheckpointWrittenAtEnd ==
    (FullRun /\ disk'.ckpt # disk.ckpt) =>
        /\ ~disk.ckpt.exists
        /\ pc = "t_epoch"
        /\ pc' = "t_done"
        /\ Len(losses) = num_epochs * num_batches
CheckpointKept ==
    (FullRun /\ pc = "t_done") => (pc' = "t_done" /\ disk' = disk)
C12_CheckpointOnceAfterLastBatch ==
    /\ []NoCheckpointBeforeEnd
    /\ [][CheckpointWrittenAtEnd /\ CheckpointKept]_vars

C12_Witness ==
    /\ pc = "t_done"
    /\ num_epochs = 2
    /\ num_batches = 2
    /\ disk.ckpt.exists
    /\ disk.ckpt.step = 3
    /\ disk.config.exists

====
